---- MODULE Spec2Model ----
(***************************************************************************)
(* deep-knn: leave-one-out token ranking (l1o.py), the index build and     *)
(* evaluation of train_text_classifier.py, and the layer lists of nets.py. *)
(*                                                                         *)
(* Spec        : main() of l1o.py, from the return of setup_model to the   *)
(*               end of the probe loop.                                    *)
(* SpecFlatten : flatten() alone, applied to every token sequence of the   *)
(*               bounded vocabulary.                                       *)
(* SpecTrain   : main() of train_text_classifier.py after trainer.run():   *)
(*               the build loop, the index, the evaluation loop.           *)
(* SpecNets    : every object of nets.py and its call with dknn=True.      *)
(*                                                                         *)
(* The specifications share the variables; each leaves the variables of    *)
(* the other programs at their idle values.                                *)
(*                                                                         *)
(* Numbers.  Scores are Python floats.  The model counts them in units of  *)
(* the additive floor 1e-6 (Floor == 1 unit), as integers, and keeps the   *)
(* quotients of the normalisation as exact fractions <<num, den>>; float   *)
(* rounding is not modelled.                                               *)
(*                                                                         *)
(* DkNN (run_dknn.py), setup_model (utils.py) and get_onehot_grad are not  *)
(* part of the sources at hand: their results are drawn from the sets      *)
(* Labels, ScoreVals and GradVals, one value per input as section 4.2 and  *)
(* 4.3 of the specification describe them.  model.deep_knn_predict, which  *)
(* train_text_classifier.py calls, is not defined in nets.py either: it    *)
(* is modelled as section 4.4 describes the forward pass, one output row   *)
(* and one activation per example of the batch.  The nearest-neighbour     *)
(* index (nearpy) is a library: a query returns some of the stored         *)
(* entries, which and how many being left open.                            *)
(***************************************************************************)
EXTENDS Integers, Sequences, FiniteSets, TLC

\* ---------------------------------------------------------------- bounds
MaxLen == 3        \* longest probe, in tokens
MaxProbes == 2     \* largest len(test)
MaxScore == 2      \* confidence / neighbour scores range over 0..MaxScore units
MaxGrad == 1       \* gradient saliencies range over -MaxGrad..MaxGrad units
VocabSize == 4     \* token ids 1..VocabSize (SpecFlatten)
MaxTrain == 3      \* most training examples (SpecTrain)
MaxTest == 2       \* most test examples (SpecTrain)
MaxBatch == 2      \* largest batchsize (SpecTrain)
MaxLayers == 3     \* most layers of an MLP or LSTM (SpecNets)

\* ------------------------------------------------------ program constants
Floor == 1         \* 1e-6, the unit of the score scale
PositiveLabel == 1

Vocab == 1..VocabSize
Labels == {0, 1, 2}
ScoreVals == 0..MaxScore
GradVals == (0 - MaxGrad)..MaxGrad
Recognized == {"dknn", "softmax", "grad"}
MethodArgs == Recognized \cup {"lime"}

NoLabel == 0 - 1

Min(a, b) == IF a < b THEN a ELSE b

\* Python x[a:b] on a 1-D array, 0-based, half open, clamped to the length.
Slice(x, a, b) == SubSeq(x, Min(a, Len(x)) + 1, Min(b, Len(x)))

\* np.concatenate((x[:i], x[i+1:]), axis=0)
RemoveAt(x, i) == Slice(x, 0, i) \o Slice(x, i + 1, Len(x))

\* assert x.shape[0] > 1
FlattenAssertOffByOne(x) == Len(x) > 0
FlattenAssert(x) == Len(x) > 1

\* for i in range(x.shape[0]): xs.append(...)
FlattenVariantsBigram(x) ==
    [k \in 1..Len(x) |-> Slice(x, 0, k - 1) \o Slice(x, k + 1, Len(x))]
FlattenVariants(x) == [k \in 1..Len(x) |-> RemoveAt(x, k - 1)]

\* flatten(x): the list of variants, or the assertion failure
Flatten(x) ==
    IF FlattenAssert(x)
    THEN [err |-> FALSE, xs |-> FlattenVariants(x)]
    ELSE [err |-> TRUE, xs |-> <<>>]

\* ------------------------------------------------------------- leave_one_out

\* ys = [int(y) for _ in xs]
ScoringLabelsPerVariant(y, xs) == [k \in 1..Len(xs) |-> (y + k) % 3]
ScoringLabels(y, xs) == [k \in 1..Len(xs) |-> y]

\* A call of a DkNN / model method as l1o.py issues it: the method, the inputs,
\* the labels passed (<<>> when the call takes none) and the reference inputs
\* (<<>> when the call takes none).
Call(op, inputs, labels, refs) ==
    [op |-> op, xs |-> inputs, ys |-> labels, ref |-> refs]

\* dknn.predict([x], snli=snli)
PredictCall(x) == Call("predict", <<x>>, <<>>, <<>>)

\* if use_credibility: one dknn.get_neighbor_change([input_x], [x]) per variant
\* else:               one dknn.get_regular_confidence(xs, ys)
ScoringCalls(x, xs, ys, use_credibility) ==
    IF use_credibility
    THEN [k \in 1..Len(xs) |->
              Call("get_neighbor_change", <<xs[k]>>, <<>>, <<x>>)]
    ELSE <<Call("get_regular_confidence", xs, ys, <<>>)>>

\* chainer.config.train when nothing has set it: l1o.py sets it nowhere but in
\* the with block of vanilla_grad
ChainerTrainDefault == TRUE

\* A pass l1o.py issues on the model itself, with chainer.config.train as it is
\* when the call is made.
ModelCall(op, inputs, train) ==
    [op |-> op, xs |-> inputs, ys |-> <<>>, ref |-> <<>>, train |-> train]

\* vanilla_grad: model.predict([x], softmax=True) inside
\* "with chainer.using_config('train', False)", model.get_onehot_grad([x])
\* after the block has been left
GradCalls(x) ==
    <<ModelCall("model.predict", <<x>>, FALSE),
      ModelCall("get_onehot_grad", <<x>>, ChainerTrainDefault)>>

\* ---------------------------------------------------------------- ranking

\* list(enumerate(scores)): pairs <<idx, score>>, idx from 0
Enumerate(scores) == [k \in 1..Len(scores) |-> <<k - 1, scores[k]>>]

\* sorted(..., key=lambda x: x[1]) is stable: an element goes behind every
\* element whose key is not greater.
RECURSIVE InsertByKey(_, _)
InsertByKey(sorted, e) ==
    IF sorted = <<>> THEN <<e>>
    ELSE IF Head(sorted)[2] <= e[2]
         THEN <<Head(sorted)>> \o InsertByKey(Tail(sorted), e)
         ELSE <<e>> \o sorted

RECURSIVE SortedUpTo(_, _)
SortedUpTo(pairs, n) ==
    IF n = 0 THEN <<>> ELSE InsertByKey(SortedUpTo(pairs, n - 1), pairs[n])

SortedReverse(pairs) ==
    [k \in 1..Len(pairs) |-> SortedUpTo(pairs, Len(pairs))[Len(pairs) + 1 - k]]
Sorted(pairs) == SortedUpTo(pairs, Len(pairs))

\* ---------------------------------------------------------- visualisation

\* for idx, score in enumerate(scores): score - original_score, or score (grad)
RawImportanceAlwaysBaseline(method, scores, original_score) ==
    [k \in 1..Len(scores) |-> scores[k] - original_score]
RawImportance(method, scores, original_score) ==
    [k \in 1..Len(scores) |->
        IF method = "dknn" \/ method = "softmax"
        THEN scores[k] - original_score
        ELSE scores[k]]

\* if prediction == 1: normalized_scores = [-1 * n for n in normalized_scores]
SignAdjustNonZero(prediction, ns) ==
    IF prediction # 0 THEN [k \in 1..Len(ns) |-> (0 - 1) * ns[k]] ELSE ns
SignAdjust(prediction, ns) ==
    IF prediction = PositiveLabel
    THEN [k \in 1..Len(ns) |-> (0 - 1) * ns[k]]
    ELSE ns

\* math.fabs(s)
Fabs(s) == IF s < 0 THEN 0 - s ELSE s

\* the first loop over normalized_scores, run on the first n entries from the
\* start value of the accumulator
RECURSIVE AccumulatePos(_, _, _)
AccumulatePos(start, ns, n) ==
    IF n = 0 THEN start
    ELSE AccumulatePos(start, ns, n - 1) + (IF ns[n] < 0 THEN 0 ELSE ns[n])

RECURSIVE AccumulateNeg(_, _, _)
AccumulateNeg(start, ns, n) ==
    IF n = 0 THEN start
    ELSE AccumulateNeg(start, ns, n - 1) + (IF ns[n] < 0 THEN Fabs(ns[n]) ELSE 0)

TotalScorePosNoFloor(ns) == AccumulatePos(0, ns, Len(ns))
TotalScorePos(ns) == AccumulatePos(Floor, ns, Len(ns))

TotalScoreNeg(ns) == AccumulateNeg(Floor, ns, Len(ns))

\* the divisor the second loop uses at position k
Divisor(ns, k) == IF ns[k] < 0 THEN TotalScoreNeg(ns) ELSE TotalScorePos(ns)

\* ZeroDivisionError in the second loop
DivisionByZero(ns) == \E k \in 1..Len(ns) : Divisor(ns, k) = 0

\* (s / total) / 2 as the fraction <<s, 2 * total>>
NormalizeOneTotal(ns) ==
    [k \in 1..Len(ns) |->
        <<ns[k], 2 * (TotalScorePos(ns) + TotalScoreNeg(ns) - Floor)>>]
Normalize(ns) == [k \in 1..Len(ns) |-> <<ns[k], 2 * Divisor(ns, k)>>]

\* [0.5 + n for n in normalized_scores]: 1/2 + a/b = (b + 2a) / (2b)
Center(ns) == [k \in 1..Len(ns) |-> <<ns[k][2] + 2 * ns[k][1], 2 * ns[k][2]>>]

\* colorize(words, color_array): zip(words, color_array)
Colorize(words, color_array) ==
    [k \in 1..Min(Len(words), Len(color_array)) |-> <<words[k], color_array[k]>>]

\* ------------------------------------------------------------------ state

VARIABLES
    pc,                \* where main() stands
    error,             \* what stopped the run, "none" while it runs
    interp_method,     \* args.interp_method
    use_snli,          \* use_snli
    N,                 \* len(test)
    j,                 \* the loop counter
    built,             \* dknn.build has returned
    calibrated,        \* dknn.calibrate has returned
    text,              \* test[i][0], the probe of this iteration
    ranker,            \* "leave_one_out" or "vanilla_grad"
    use_cred,          \* use_cred
    calls,             \* the scorer calls the ranker of this iteration issued
    xs,                \* the variants flatten returned
    prediction,        \* prediction
    original_score,    \* original_score
    scores,            \* scores
    sorted_scores,     \* sorted_scores
    raw_importance,    \* normalized_scores after the loop of lines 198-203
    signed_importance, \* normalized_scores after the sign flip of lines 204-205
    scaled,            \* normalized_scores after the loop of lines 217-221
    normalized_scores, \* normalized_scores after line 231
    words,             \* words
    visual,            \* visual, the zip colorize renders
    html               \* the lines this run appended to the output file

\* main() of train_text_classifier.py, from the return of trainer.run()
VARIABLES
    tpc,               \* where main() stands
    terror,            \* what stopped the run, "none" while it runs
    batchsize,         \* args.batchsize
    n_train,           \* len(train)
    n_test,            \* len(test)
    train_left,        \* the training examples train_iter has not yielded yet
    label_list,        \* label_list
    layers_act_list,   \* layers_act_list
    activation_tree,   \* the vectors stored in activation_tree, with their data
    test_pos,          \* the test examples the evaluation has gone through
    batch_left,        \* the examples of the current test batch still to query
    training_indices,  \* training_indices of the last query
    pred_labels,       \* pred_labels of the last query, by neighbour
    n_correct,         \* n_correct
    total              \* total

\* an object of nets.py and its call with dknn=True
VARIABLES
    npc,               \* "constructed", "returned" or "raised"
    net,               \* the object
    dknn_layers        \* the per-layer activations the call returned

l1oVars == <<pc, error, interp_method, use_snli, N, j, built, calibrated, text,
             ranker, use_cred, calls, xs, prediction, original_score, scores,
             sorted_scores, raw_importance, signed_importance, scaled,
             normalized_scores, words, visual, html>>

trainVars == <<tpc, terror, batchsize, n_train, n_test, train_left, label_list,
               layers_act_list, activation_tree, test_pos, batch_left,
               training_indices, pred_labels, n_correct, total>>

netVars == <<npc, net, dknn_layers>>

vars == <<l1oVars, trainVars, netVars>>

\* train_text_classifier.py is not running
TrainIdle ==
    /\ tpc = "idle"
    /\ terror = "none"
    /\ batchsize = 1
    /\ n_train = 0
    /\ n_test = 0
    /\ train_left = {}
    /\ label_list = <<>>
    /\ layers_act_list = <<>>
    /\ activation_tree = {}
    /\ test_pos = 0
    /\ batch_left = 0
    /\ training_indices = {}
    /\ pred_labels = <<>>
    /\ n_correct = 0
    /\ total = 0

\* no object of nets.py is under study
NetIdle ==
    /\ npc = "idle"
    /\ net = [cls |-> "none"]
    /\ dknn_layers = <<>>

config == <<interp_method, use_snli, N>>
dknnState == <<built, calibrated>>
locals == <<calls, xs, prediction, original_score, scores, sorted_scores,
            raw_importance, signed_importance, scaled, normalized_scores,
            words, visual>>

\* The locals of an iteration before the iteration binds them.
LocalsUnbound ==
    /\ calls = <<>>
    /\ xs = <<>>
    /\ prediction = NoLabel
    /\ original_score = 0
    /\ scores = <<>>
    /\ sorted_scores = <<>>
    /\ raw_importance = <<>>
    /\ signed_importance = <<>>
    /\ scaled = <<>>
    /\ normalized_scores = <<>>
    /\ words = <<>>
    /\ visual = <<>>

\* The locals are left unbound.
UnbindLocals ==
    /\ calls' = <<>>
    /\ xs' = <<>>
    /\ prediction' = NoLabel
    /\ original_score' = 0
    /\ scores' = <<>>
    /\ sorted_scores' = <<>>
    /\ raw_importance' = <<>>
    /\ signed_importance' = <<>>
    /\ scaled' = <<>>
    /\ normalized_scores' = <<>>
    /\ words' = <<>>
    /\ visual' = <<>>

\* The probe of a given length.  main() and leave_one_out never branch on a
\* token value, so the probes of the loop differ by length only and carry their
\* position as token, which keeps every removed position visible.
Probe(len) == [k \in 1..len |-> k]
TestProbes == {Probe(len) : len \in 0..MaxLen}

\* Every token sequence of the bounded vocabulary (SpecFlatten).
TokenSeqs == UNION {[1..n -> Vocab] : n \in 0..MaxLen}

\* The state when setup_model has returned.  The test set is read only: its
\* i-th probe is drawn when the loop first reads it.
Init ==
    /\ pc = "start"
    /\ error = "none"
    /\ interp_method \in MethodArgs
    /\ use_snli \in BOOLEAN
    /\ N \in 0..MaxProbes
    /\ j = 0
    /\ built = FALSE
    /\ calibrated = FALSE
    /\ text = <<>>
    /\ ranker = "none"
    /\ use_cred = FALSE
    /\ LocalsUnbound
    /\ html = <<>>
    /\ TrainIdle
    /\ NetIdle

\* ---------------------------------------------------------------- actions

\* dknn = DkNN(model, args.lsh); dknn.build(train, ...)
Build ==
    /\ UNCHANGED <<trainVars, netVars>>
    /\ pc = "start"
    /\ built' = TRUE
    /\ pc' = "built"
    /\ UNCHANGED <<error, config, j, calibrated, text, ranker, use_cred, locals, html>>

\* the loop is entered with no calibration
CalibrateSkipped ==
    /\ UNCHANGED <<trainVars, netVars>>
    /\ pc = "built"
    /\ pc' = "loop"
    /\ UNCHANGED <<error, config, j, dknnState, text, ranker, use_cred, locals, html>>

\* dknn.calibrate(train[:1000], ...), then the loop is entered
Calibrate ==
    /\ UNCHANGED <<trainVars, netVars>>
    /\ pc = "built"
    /\ calibrated' = TRUE
    /\ pc' = "loop"
    /\ UNCHANGED <<error, config, j, built, text, ranker, use_cred, locals, html>>

\* the if / elif chain that advances args.interp_method
Rotate(method) ==
    CASE method = "dknn" -> "softmax"
      [] method = "softmax" -> "grad"
      [] method = "grad" -> "dknn"
      [] OTHER -> method

\* ranker = partial(leave_one_out, dknn) / partial(vanilla_grad, model)
RankerOf(method) ==
    IF method = "dknn" \/ method = "softmax" THEN "leave_one_out" ELSE "vanilla_grad"

\* The head of an iteration: i = j // 3, the method advances, the ranker is
\* chosen, the probe is read and use_cred is set.  The locals of the iteration
\* before are rebound before they are read again; they are unbound here.
SelectRanker ==
    /\ UNCHANGED <<trainVars, netVars>>
    /\ pc = "loop"
    /\ j < 3 * N
    /\ Rotate(interp_method) \in Recognized
    /\ interp_method' = Rotate(interp_method)
    /\ ranker' = RankerOf(interp_method')
    /\ IF use_snli THEN text' = <<>>
       ELSE IF j % 3 = 0 THEN text' \in TestProbes ELSE text' = text
    /\ use_cred' = (interp_method' = "dknn")
    /\ UnbindLocals
    /\ pc' = "rank"
    /\ UNCHANGED <<error, use_snli, N, j, dknnState, html>>

\* else: exit("Method")
RejectMethod ==
    /\ UNCHANGED <<trainVars, netVars>>
    /\ pc = "loop"
    /\ j < 3 * N
    /\ Rotate(interp_method) \notin Recognized
    /\ interp_method' = Rotate(interp_method)
    /\ pc' = "exited"
    /\ error' = "exit"
    /\ UNCHANGED <<use_snli, N, j, dknnState, text, ranker, use_cred, locals, html>>

\* range(len(test) * 3) is exhausted
LoopEnd ==
    /\ UNCHANGED <<trainVars, netVars>>
    /\ pc = "loop"
    /\ j = 3 * N
    /\ pc' = "done"
    /\ UNCHANGED <<error, config, j, dknnState, text, ranker, use_cred, locals, html>>

\* Lines 176-249 on the ranker's results: the ranking, the raw importances,
\* the sign flip, the two-sided normalisation, the shift and the line written.
Visualize(y, s0, sc) ==
    LET raw == RawImportance(interp_method, sc, s0)
        sgn == SignAdjust(y, raw)
        wds == [k \in 1..Len(sc) |-> text[k]]
    IN  /\ prediction' = y
        /\ original_score' = s0
        /\ scores' = sc
        /\ sorted_scores' = Sorted(Enumerate(sc))
        /\ raw_importance' = raw
        /\ signed_importance' = sgn
        /\ words' = wds
        /\ IF DivisionByZero(sgn)
           THEN /\ pc' = "aborted"
                /\ error' = "ZeroDivisionError"
                /\ scaled' = <<>>
                /\ normalized_scores' = <<>>
                /\ visual' = <<>>
                /\ UNCHANGED <<j, html>>
           ELSE /\ scaled' = Normalize(sgn)
                /\ normalized_scores' = Center(scaled')
                /\ visual' = Colorize(wds, normalized_scores')
                /\ html' = Append(html, [probe |-> j \div 3, method |-> interp_method])
                /\ j' = j + 1
                /\ pc' = "loop"
                /\ UNCHANGED error

\* ranker = leave_one_out on a probe flatten accepts
RankLeaveOneOut ==
    /\ UNCHANGED <<trainVars, netVars>>
    /\ pc = "rank"
    /\ ranker = "leave_one_out"
    /\ ~use_snli
    /\ ~Flatten(text).err
    /\ \E y \in Labels, s0 \in ScoreVals :
         LET variants == Flatten(text).xs
             ys == ScoringLabels(y, variants)
         IN  /\ xs' = variants
             /\ calls' = <<PredictCall(text)>> \o ScoringCalls(text, variants, ys, use_cred)
             /\ \E sc \in [1..Len(variants) -> ScoreVals] : Visualize(y, s0, sc)
    /\ UNCHANGED <<config, dknnState, text, ranker, use_cred>>

\* ranker = leave_one_out on a probe flatten rejects: the assertion fails after
\* dknn.predict and nothing catches it
RankDegenerate ==
    /\ UNCHANGED <<trainVars, netVars>>
    /\ pc = "rank"
    /\ ranker = "leave_one_out"
    /\ ~use_snli
    /\ Flatten(text).err
    /\ calls' = <<PredictCall(text)>>
    /\ xs' = Flatten(text).xs
    /\ pc' = "aborted"
    /\ error' = "AssertionError"
    /\ UNCHANGED <<config, j, dknnState, text, ranker, use_cred, prediction,
                   original_score, scores, sorted_scores, raw_importance,
                   signed_importance, scaled, normalized_scores, words, visual, html>>

\* ranker = vanilla_grad: one saliency per position of the probe
RankGrad ==
    /\ UNCHANGED <<trainVars, netVars>>
    /\ pc = "rank"
    /\ ranker = "vanilla_grad"
    /\ ~use_snli
    /\ xs' = <<>>
    /\ calls' = GradCalls(text)
    /\ \E y \in Labels, s0 \in ScoreVals :
         \E sc \in [1..Len(text) -> GradVals] : Visualize(y, s0, sc)
    /\ UNCHANGED <<config, dknnState, text, ranker, use_cred>>

\* use_snli: leave_one_out reaches snli_flatten, which is commented out, and
\* after vanilla_grad main() reads text, which the snli branch never binds
RankSnli ==
    /\ UNCHANGED <<trainVars, netVars>>
    /\ pc = "rank"
    /\ use_snli
    /\ calls' = IF ranker = "leave_one_out" THEN <<PredictCall(text)>> ELSE GradCalls(text)
    /\ pc' = "aborted"
    /\ error' = "NameError"
    /\ UNCHANGED <<config, j, dknnState, text, ranker, use_cred, xs, prediction,
                   original_score, scores, sorted_scores, raw_importance,
                   signed_importance, scaled, normalized_scores, words, visual, html>>

Next ==
    \/ Build
    \/ Calibrate
    \/ SelectRanker
    \/ RejectMethod
    \/ LoopEnd
    \/ RankLeaveOneOut
    \/ RankDegenerate
    \/ RankGrad
    \/ RankSnli

Spec == Init /\ [][Next]_vars

\* ------------------------------------------------------------ flatten alone

\* flatten is about to be called on a token sequence
InitFlatten ==
    /\ pc = "flatten"
    /\ error = "none"
    /\ interp_method = "dknn"
    /\ use_snli = FALSE
    /\ N = 0
    /\ j = 0
    /\ built = FALSE
    /\ calibrated = FALSE
    /\ text \in TokenSeqs
    /\ ranker = "none"
    /\ use_cred = FALSE
    /\ LocalsUnbound
    /\ html = <<>>
    /\ TrainIdle
    /\ NetIdle

\* flatten(x) returns its list
FlattenReturn ==
    /\ UNCHANGED <<trainVars, netVars>>
    /\ pc = "flatten"
    /\ ~Flatten(text).err
    /\ xs' = Flatten(text).xs
    /\ pc' = "returned"
    /\ UNCHANGED <<error, config, j, dknnState, text, ranker, use_cred, calls,
                   prediction, original_score, scores, sorted_scores,
                   raw_importance, signed_importance, scaled, normalized_scores,
                   words, visual, html>>

\* flatten(x) fails its assertion
FlattenRaise ==
    /\ UNCHANGED <<trainVars, netVars>>
    /\ pc = "flatten"
    /\ Flatten(text).err
    /\ xs' = Flatten(text).xs
    /\ pc' = "aborted"
    /\ error' = "AssertionError"
    /\ UNCHANGED <<config, j, dknnState, text, ranker, use_cred, calls,
                   prediction, original_score, scores, sorted_scores,
                   raw_importance, signed_importance, scaled, normalized_scores,
                   words, visual, html>>

NextFlatten == FlattenReturn \/ FlattenRaise

SpecFlatten == InitFlatten /\ [][NextFlatten]_vars

\* ------------------------------------------- train_text_classifier.py main()

\* l1o.py is not running
L1oIdle ==
    /\ pc = "idle"
    /\ error = "none"
    /\ interp_method = "dknn"
    /\ use_snli = FALSE
    /\ N = 0
    /\ j = 0
    /\ built = FALSE
    /\ calibrated = FALSE
    /\ text = <<>>
    /\ ranker = "none"
    /\ use_cred = FALSE
    /\ LocalsUnbound
    /\ html = <<>>

\* The training examples are numbered 1..n_train in dataset order.  The
\* number is carried along with an example's output row and activation, and
\* with what is derived from them, to tell whose they are; the program
\* itself keeps no such tag.
TrainSet == 1..n_train

\* the class the trained model gives training example e (argmax of its
\* output row)
PredictedLabel(e) == e % 2

Range(s) == {s[k] : k \in DOMAIN s}

\* model.deep_knn_predict(text): one output row and one activation per
\* example of the batch, in the order of the batch
DeepKnnPredict(batch) ==
    [output      |-> [r \in 1..Len(batch) |->
                         [ex |-> batch[r], label |-> PredictedLabel(batch[r])]],
     activations |-> [r \in 1..Len(batch) |-> [ex |-> batch[r]]]]

\* a batch of train_iter: SerialIterator shuffles by default and, with
\* repeat=False, ends with a short batch
Batches(left, size) ==
    {b \in [1..size -> left] : \A a, c \in 1..size : a # c => b[a] # b[c]}

\* for prediction in output: label_list.append(argmax(prediction))
AppendLabelsReversed(ll, output) ==
    ll \o [r \in 1..Len(output) |-> output[Len(output) + 1 - r]]

AppendLabels(ll, output) == ll \o output

\* for activation in activations: layers_act_list.append(activation.data)
AppendActivations(al, activations) == al \o activations

\* one turn of the build loop, over one batch
BuildBatch ==
    /\ UNCHANGED <<l1oVars, netVars>>
    /\ tpc = "build"
    /\ train_left # {}
    /\ \E batch \in Batches(train_left, Min(batchsize, Cardinality(train_left))) :
         LET res == DeepKnnPredict(batch) IN
         /\ train_left' = train_left \ Range(batch)
         /\ label_list' = AppendLabels(label_list, res.output)
         /\ layers_act_list' = AppendActivations(layers_act_list, res.activations)
    /\ UNCHANGED <<tpc, terror, batchsize, n_train, n_test, activation_tree,
                   test_pos, batch_left, training_indices, pred_labels,
                   n_correct, total>>

\* enumerate() numbers the k-th element of a list k - 1
IndFromOne(k) == k

Ind(k) == k - 1

\* for ind, element in enumerate(layers_act_list): store_vector(element, ind)
StoreVectors(al) == {[vec |-> al[k], data |-> Ind(k)] : k \in 1..Len(al)}

\* the build loop is over: the index is made and filled
StoreIndex ==
    /\ UNCHANGED <<l1oVars, netVars>>
    /\ tpc = "build"
    /\ train_left = {}
    /\ IF layers_act_list = <<>>
       THEN /\ terror' = "IndexError:168"
            /\ tpc' = "aborted"
            /\ UNCHANGED activation_tree
       ELSE /\ activation_tree' = StoreVectors(layers_act_list)
            /\ tpc' = "eval"
            /\ UNCHANGED terror
    /\ UNCHANGED <<batchsize, n_train, n_test, train_left, label_list,
                   layers_act_list, test_pos, batch_left, training_indices,
                   pred_labels, n_correct, total>>

\* the forward pass over the next test batch (test_iter does not shuffle)
EvalBatch ==
    /\ UNCHANGED <<l1oVars, netVars>>
    /\ tpc = "eval"
    /\ batch_left = 0
    /\ test_pos < n_test
    /\ batch_left' = Min(batchsize, n_test - test_pos)
    /\ UNCHANGED <<tpc, terror, batchsize, n_train, n_test, train_left,
                   label_list, layers_act_list, activation_tree, test_pos,
                   training_indices, pred_labels, n_correct, total>>

\* activation_tree.neighbours(activation): entries of the index, nearest
\* first; which and how many is the index's choice
Neighbours(tree) == SUBSET tree

\* how often label l occurs in pred_labels
Count(labs, l) == Cardinality({i \in DOMAIN labs : labs[i] = l})

\* Counter(pred_labels).most_common(1)[0][0]; Counter breaks a tie by the
\* order of pred_labels, which the index decides
MostCommon(labs) ==
    {l \in Range(labs) : \A m \in Range(labs) : Count(labs, l) >= Count(labs, m)}

\* one example of the test batch: query, label lookup, vote, count.  The
\* index is left as treeAfter.
EvalStep(treeAfter) ==
    /\ UNCHANGED <<l1oVars, netVars>>
    /\ tpc = "eval"
    /\ batch_left > 0
    /\ activation_tree' = treeAfter
    /\ \E knn \in Neighbours(activation_tree) :
         LET ids == {nn.data : nn \in knn}
             known == {i \in ids : i + 1 \in DOMAIN label_list}
             labs == [i \in known |-> label_list[i + 1].label]
         IN
         /\ training_indices' = ids
         /\ pred_labels' = labs
         /\ IF known # ids
            THEN /\ terror' = "IndexError:214"
                 /\ tpc' = "aborted"
                 /\ UNCHANGED <<test_pos, batch_left, n_correct, total>>
            ELSE IF ids = {}
            THEN /\ terror' = "IndexError:217"
                 /\ tpc' = "aborted"
                 /\ UNCHANGED <<test_pos, batch_left, n_correct, total>>
            ELSE \E pred_label \in MostCommon(labs), curr_label \in Labels :
                 /\ n_correct' = n_correct + (IF pred_label = curr_label THEN 1 ELSE 0)
                 /\ total' = total + 1
                 /\ test_pos' = test_pos + 1
                 /\ batch_left' = batch_left - 1
                 /\ UNCHANGED <<tpc, terror>>
    /\ UNCHANGED <<batchsize, n_train, n_test, train_left, label_list,
                   layers_act_list>>

\* an evaluation that would also enter the queried activation in the index
EvalExampleStoring ==
    EvalStep(activation_tree \cup {[vec |-> [ex |-> 0], data |-> n_train]})

EvalExample == EvalStep(activation_tree)

\* accuracy = float(n_correct) / float(total)
Accuracy ==
    /\ UNCHANGED <<l1oVars, netVars>>
    /\ tpc = "eval"
    /\ batch_left = 0
    /\ test_pos = n_test
    /\ IF total = 0
       THEN /\ terror' = "ZeroDivisionError:224"
            /\ tpc' = "aborted"
       ELSE /\ tpc' = "done"
            /\ UNCHANGED terror
    /\ UNCHANGED <<batchsize, n_train, n_test, train_left, label_list,
                   layers_act_list, activation_tree, test_pos, batch_left,
                   training_indices, pred_labels, n_correct, total>>

InitTrain ==
    /\ L1oIdle
    /\ NetIdle
    /\ tpc = "build"
    /\ terror = "none"
    /\ batchsize \in 1..MaxBatch
    /\ n_train \in 0..MaxTrain
    /\ n_test \in 0..MaxTest
    /\ train_left = TrainSet
    /\ label_list = <<>>
    /\ layers_act_list = <<>>
    /\ activation_tree = {}
    /\ test_pos = 0
    /\ batch_left = 0
    /\ training_indices = {}
    /\ pred_labels = <<>>
    /\ n_correct = 0
    /\ total = 0

NextTrain == BuildBatch \/ StoreIndex \/ EvalBatch \/ EvalExample \/ Accuracy

SpecTrain == InitTrain /\ [][NextTrain]_vars

\* ------------------------------------------------------------------ nets.py

\* What a call hands back as its per-layer activations is either a Python
\* list of arrays or one chainer Variable whose first axis runs over the
\* layers; items names the arrays, or the slices of the first axis.
List(items) == [kind |-> "list", items |-> items]

Variable(items) == [kind |-> "Variable", items |-> items]

Layer(of, i) == [of |-> of, i |-> i]

Returns(value) == [raised |-> FALSE, value |-> value]

Raises == [raised |-> TRUE, value |-> List(<<>>)]

\* a + b of Python: two lists are concatenated; a chainer Variable takes a
\* Variable, an array or a scalar as the other operand and raises TypeError
\* on a list
Plus(a, b) ==
    IF a.kind = "list" /\ b.kind = "list"
    THEN Returns(List(a.items \o b.items))
    ELSE Raises

\* MLP(n_layers, ...): one child link per layer
MLP(n_layers) ==
    [cls |-> "MLP", children |-> n_layers, n_dknn_layers |-> n_layers]

\* RNNEncoder(n_layers, ...)
RNNEncoder(n_layers) ==
    [cls |-> "RNNEncoder", n_layers |-> n_layers, n_dknn_layers |-> n_layers]

\* CNNEncoder(n_layers, ...)
CNNEncoder(n_layers) ==
    [cls |-> "CNNEncoder", mlp |-> MLP(n_layers),
     n_dknn_layers |-> MLP(n_layers).n_dknn_layers + 1]

\* BOWEncoder(...)
BOWEncoder == [cls |-> "BOWEncoder", n_dknn_layers |-> 1]

\* BOWMLPEncoder(n_layers, ...)
BOWMLPEncoder(n_layers) ==
    [cls |-> "BOWMLPEncoder", bow_encoder |-> BOWEncoder,
     mlp_encoder |-> MLP(n_layers),
     n_dknn_layers |-> BOWEncoder.n_dknn_layers + MLP(n_layers).n_dknn_layers]

\* TextClassifier(encoder, ...)
TextClassifier(encoder) ==
    [cls |-> "TextClassifier", encoder |-> encoder,
     n_dknn_layers |-> encoder.n_dknn_layers]

\* SNLIClassifier(encoder, n_layers=..., combine=...)
SNLIClassifier(encoder, n_layers, combine) ==
    [cls |-> "SNLIClassifier", encoder |-> encoder, mlp |-> MLP(n_layers),
     combine |-> combine,
     n_dknn_layers |-> IF combine
                       THEN MLP(n_layers).n_dknn_layers + encoder.n_dknn_layers
                       ELSE MLP(n_layers).n_dknn_layers + 1]

\* MLP.__call__(x, dknn=True): one activation appended per child link
MLPCall(m) == List([i \in 1..m.children |-> Layer("mlp", i)])

\* RNNEncoder.__call__(xs, dknn=True): last_h, of shape (n_layers, batch, units)
RNNEncoderCall(e) ==
    Returns(Variable([i \in 1..e.n_layers |-> Layer("last_h", i)]))

\* CNNEncoder.__call__(xs, dknn=True): [F.squeeze(h, 2)] + layers
CNNEncoderCall(e) == Plus(List(<<Layer("cnn_h", 0)>>), MLPCall(e.mlp))

\* BOWEncoder.__call__(xs, dknn=True): [F.squeeze(h, 2)]
BOWEncoderCall(e) == Returns(List(<<Layer("bow_h", 0)>>))

\* BOWMLPEncoder.__call__(xs, dknn=True): hs + dknn_layers
BOWMLPEncoderCall(e) ==
    Plus(BOWEncoderCall(e.bow_encoder).value, MLPCall(e.mlp_encoder))

\* self.encoder(xs, dknn=True)
EncoderCall(e) ==
    CASE e.cls = "RNNEncoder"    -> RNNEncoderCall(e)
      [] e.cls = "CNNEncoder"    -> CNNEncoderCall(e)
      [] e.cls = "BOWEncoder"    -> BOWEncoderCall(e)
      [] e.cls = "BOWMLPEncoder" -> BOWMLPEncoderCall(e)

\* TextClassifier.predict(xs, dknn=True): the encoder's layers
TextClassifierPredict(c) == EncoderCall(c.encoder)

\* SNLIClassifier.predict(xs, dknn=True): the encoder's layers (combine) or
\* [encodings], then + the layers of the MLP
SNLIClassifierPredict(c) ==
    LET first == IF c.combine
                 THEN EncoderCall(c.encoder)
                 ELSE Returns(List(<<Layer("encodings", 0)>>))
    IN  IF first.raised THEN first ELSE Plus(first.value, MLPCall(c.mlp))

\* the call with dknn=True on an object of nets.py
CallDknn(o) ==
    CASE o.cls = "MLP"            -> Returns(MLPCall(o))
      [] o.cls = "TextClassifier" -> TextClassifierPredict(o)
      [] o.cls = "SNLIClassifier" -> SNLIClassifierPredict(o)
      [] OTHER                    -> EncoderCall(o)

\* the encoders and the objects of nets.py, up to MaxLayers layers
Encoders ==
    {RNNEncoder(n) : n \in 1..MaxLayers}
        \cup {CNNEncoder(n) : n \in 0..MaxLayers}
        \cup {BOWEncoder}
        \cup {BOWMLPEncoder(n) : n \in 0..MaxLayers}

Networks ==
    {MLP(n) : n \in 0..MaxLayers}
        \cup Encoders
        \cup {TextClassifier(e) : e \in Encoders}
        \cup {SNLIClassifier(e, n, c) : e \in Encoders, n \in 0..MaxLayers,
                                        c \in BOOLEAN}

InitNets ==
    /\ L1oIdle
    /\ TrainIdle
    /\ npc = "constructed"
    /\ net \in Networks
    /\ dknn_layers = <<>>

\* the call returns its activations
DknnReturn ==
    /\ UNCHANGED <<l1oVars, trainVars>>
    /\ npc = "constructed"
    /\ ~CallDknn(net).raised
    /\ dknn_layers' = CallDknn(net).value.items
    /\ npc' = "returned"
    /\ UNCHANGED net

\* the call raises
DknnRaise ==
    /\ UNCHANGED <<l1oVars, trainVars>>
    /\ npc = "constructed"
    /\ CallDknn(net).raised
    /\ npc' = "raised"
    /\ UNCHANGED <<net, dknn_layers>>

NextNets == DknnReturn \/ DknnRaise

SpecNets == InitNets /\ [][NextNets]_vars

\* ================================================================= claims

\* An iteration of the probe loop has run to its end: the locals hold its
\* results and interp_method, ranker and text are those it ran with.
Ranked == pc \in {"loop", "done"} /\ j > 0

LeaveOneOutRanked == Ranked /\ ranker = "leave_one_out"

\* the 0-based positions of a sequence
Positions(x) == 0..(Len(x) - 1)

\* C1: for a probe x of length L > 1 flatten returns exactly L variants, and
\* the i-th variant is x without the token at position i: length L - 1, the
\* tokens before i unmoved, the tokens after i moved one place down.
C1_FlattenRemovesEachPosition ==
    /\ (pc # "flatten" /\ Len(text) > 1) => pc = "returned"
    /\ pc = "returned" =>
         /\ Len(xs) = Len(text)
         /\ \A i \in Positions(text) :
              /\ Len(xs[i + 1]) = Len(text) - 1
              /\ \A k \in 1..(Len(text) - 1) :
                   xs[i + 1][k] = IF k <= i THEN text[k] ELSE text[k + 1]

C1_Witness ==
    /\ pc = "returned"
    /\ Len(text) = 3
    /\ text[1] # text[2] /\ text[2] # text[3] /\ text[1] # text[3]
    /\ xs[2] = <<text[1], text[3]>>

\* C2: after leave_one_out has ranked a probe of length L, sorted_scores has L
\* entries, holds every position 0..L-1 (so each exactly once) with the score
\* of that position, and its scores never decrease from one entry to the next.
C2_RankingIsAscendingPermutation ==
    LeaveOneOutRanked =>
        /\ Len(text) > 1
        /\ Len(sorted_scores) = Len(text)
        /\ {sorted_scores[k][1] : k \in 1..Len(sorted_scores)} = Positions(text)
        /\ \A k \in 1..Len(sorted_scores) :
             sorted_scores[k][2] = scores[sorted_scores[k][1] + 1]
        /\ \A k \in 1..(Len(sorted_scores) - 1) :
             sorted_scores[k][2] <= sorted_scores[k + 1][2]

C2_Witness ==
    /\ LeaveOneOutRanked
    /\ Len(text) = 3
    /\ scores[1] > scores[2] /\ scores[2] > scores[3]
    /\ sorted_scores[1][1] = 2

\* C3: when leave_one_out is called on a probe in token-removal mode, a probe
\* of length 0 or 1 makes the call fail (the assertion of flatten) with no
\* variant produced, and a longer probe is ranked; a probe of length 2 yields
\* two variants of length 1.
C3_ShortProbeFails ==
    [][(pc = "rank" /\ ranker = "leave_one_out" /\ ~use_snli) =>
          IF Len(text) <= 1
          THEN pc' = "aborted" /\ error' = "AssertionError" /\ xs' = <<>>
          ELSE /\ pc' = "loop"
               /\ error' = "none"
               /\ Len(xs') = Len(text)
               /\ Len(text) = 2 => (Len(xs'[1]) = 1 /\ Len(xs'[2]) = 1)]_vars

C3_Witness ==
    /\ pc = "aborted"
    /\ error = "AssertionError"
    /\ ranker = "leave_one_out"
    /\ Len(text) = 1
    /\ xs = <<>>

\* the calls of a method among the calls of the iteration
CallsOf(op) == {k \in 1..Len(calls) : calls[k].op = op}

\* C4 as stated: the label is predicted once, on the unmodified probe, and
\* every variant scored in the iteration is scored against that label, in
\* both modes.
C4_EveryVariantScoredAgainstFixedLabel ==
    LeaveOneOutRanked =>
        /\ CallsOf("predict") = {1}
        /\ calls[1].xs = <<text>>
        /\ \A c \in 2..Len(calls) :
             /\ Len(calls[c].ys) = Len(calls[c].xs)
             /\ \A k \in 1..Len(calls[c].xs) : calls[c].ys[k] = prediction

\* C4 amended: the label is predicted once, on the unmodified probe, and no
\* variant is passed to predict.  In regular-confidence mode all variants go to
\* one get_regular_confidence call, each with the predicted label.  In
\* neighbour-credibility mode each variant goes to its own get_neighbor_change
\* call, with the unmodified probe as reference and no label.
C4_FixedLabelOrFixedReference ==
    LeaveOneOutRanked =>
        /\ CallsOf("predict") = {1}
        /\ calls[1].xs = <<text>>
        /\ interp_method = "softmax" =>
             /\ Len(calls) = 2
             /\ calls[2].op = "get_regular_confidence"
             /\ calls[2].xs = xs
             /\ Len(calls[2].ys) = Len(xs)
             /\ \A k \in 1..Len(xs) : calls[2].ys[k] = prediction
        /\ interp_method = "dknn" =>
             /\ Len(calls) = Len(xs) + 1
             /\ \A k \in 1..Len(xs) :
                  /\ calls[k + 1].op = "get_neighbor_change"
                  /\ calls[k + 1].xs = <<xs[k]>>
                  /\ calls[k + 1].ref = <<text>>
                  /\ calls[k + 1].ys = <<>>

C4_Witness ==
    /\ LeaveOneOutRanked
    /\ interp_method = "dknn"
    /\ Len(text) = 3
    /\ prediction = 2
    /\ Len(calls) = 4
    /\ calls[3] = Call("get_neighbor_change", <<<<1, 3>>>>, <<>>, <<text>>)

\* C5: the raw importance of position p is the score of the variant without
\* position p minus the baseline score in dknn and softmax mode, and the
\* saliency of position p itself in grad mode.
C5_RawImportance ==
    Ranked =>
        /\ Len(raw_importance) = Len(text)
        /\ Len(scores) = Len(text)
        /\ \A p \in Positions(text) :
             IF interp_method \in {"dknn", "softmax"}
             THEN /\ raw_importance[p + 1] = scores[p + 1] - original_score
                  /\ Len(xs[p + 1]) = Len(text) - 1
                  /\ \A k \in 1..Len(xs[p + 1]) : xs[p + 1][k] # text[p + 1]
             ELSE /\ interp_method = "grad"
                  /\ raw_importance[p + 1] = scores[p + 1]

C5_Witness ==
    /\ Ranked
    /\ interp_method = "grad"
    /\ original_score > 0
    /\ Len(text) = 2
    /\ scores[1] < 0 /\ raw_importance[1] = scores[1]

\* C6: the importances that enter the normalisation are the raw importances,
\* every one negated, when the predicted label is 1, and the raw importances
\* themselves for every other predicted label.
C6_SignFlipIffPositive ==
    Ranked =>
        /\ Len(signed_importance) = Len(raw_importance)
        /\ Len(scaled) = Len(raw_importance)
        /\ \A k \in 1..Len(raw_importance) :
             /\ prediction = 1 => signed_importance[k] = 0 - raw_importance[k]
             /\ prediction # 1 => signed_importance[k] = raw_importance[k]
             /\ scaled[k][1] = signed_importance[k]

C6_Witness ==
    /\ Ranked
    /\ prediction = 1
    /\ Len(text) = 2
    /\ raw_importance[1] > 0
    /\ signed_importance[1] < 0

\* C7: the normalisation never divides by zero, and every value written after
\* the shift by 0.5 lies in [0, 1].
C7_NormalizedInUnitInterval ==
    /\ error # "ZeroDivisionError"
    /\ Ranked =>
         /\ Len(normalized_scores) = Len(scores)
         /\ \A k \in 1..Len(normalized_scores) :
              /\ normalized_scores[k][2] > 0
              /\ 0 <= normalized_scores[k][1]
              /\ normalized_scores[k][1] <= normalized_scores[k][2]

C7_Witness ==
    /\ Ranked
    /\ Len(text) = 3
    /\ \A k \in 1..3 : signed_importance[k] = 0
    /\ \A k \in 1..3 : 2 * normalized_scores[k][1] = normalized_scores[k][2]

\* the sum of the absolute values of ns over the index set S
RECURSIVE AbsSum(_, _)
AbsSum(ns, S) ==
    IF S = {} THEN 0
    ELSE LET k == CHOOSE x \in S : TRUE
         IN  Fabs(ns[k]) + AbsSum(ns, S \ {k})

NegativePart(ns) == {k \in 1..Len(ns) : ns[k] < 0}
NonNegativePart(ns) == {k \in 1..Len(ns) : ns[k] >= 0}

\* the sum of the partition position k belongs to, with the floor
OwnPartitionSum(ns, k) ==
    Floor + AbsSum(ns, IF ns[k] < 0 THEN NegativePart(ns) ELSE NonNegativePart(ns))

\* C8: each position is divided by twice the sum of its own sign partition
\* (with the floor); a negative importance ends in [0, 0.5], a non-negative
\* one in [0.5, 1]; the value before the shift times twice the sum of its own
\* partition is the sign-adjusted raw importance.
C8_PartitionsScaledIndependently ==
    Ranked =>
        \A k \in 1..Len(signed_importance) :
            LET s == signed_importance[k]
                t == OwnPartitionSum(signed_importance, k)
                n == scaled[k]
                f == normalized_scores[k]
            IN  /\ n[2] = 2 * t
                /\ 2 * t * n[1] = s * n[2]
                /\ f[2] > 0
                /\ s < 0 => (0 <= f[1] /\ 2 * f[1] <= f[2])
                /\ s >= 0 => (f[2] <= 2 * f[1] /\ f[1] <= f[2])

C8_Witness ==
    /\ Ranked
    /\ Len(text) = 3
    /\ signed_importance = <<0 - 1, 1, 0 - 1>>
    /\ scaled = <<<<0 - 1, 6>>, <<1, 4>>, <<0 - 1, 6>>>>
    /\ normalized_scores = <<<<4, 12>>, <<6, 8>>, <<4, 12>>>>

Halted == pc \in {"done", "aborted", "exited"}

\* the probes that have a line in the output file
ProbesWritten == {html[k].probe : k \in 1..Len(html)}

\* C9 as stated: when the ranking of a probe has failed, every later probe of
\* the test set is still ranked and has its line written by the time the run
\* ends.
C9_FailureDoesNotStopTheLoop ==
    (Halted /\ error \in {"AssertionError", "NameError"}) =>
        \A i \in 0..(N - 1) : i > j \div 3 => i \in ProbesWritten

\* C10 as stated: with an unrecognized interp_method the run never gets past
\* configuration: no build, no calibration, no probe.
C10_RejectedAtConfigurationTime ==
    interp_method \notin Recognized =>
        /\ pc \in {"start", "exited"}
        /\ ~built
        /\ ~calibrated
        /\ html = <<>>

\* C11: calibrate starts only when build has returned, and a probe is read,
\* predicted or ranked only when calibrate has returned.
C11_BuildCalibrateBeforeProbes ==
    /\ calibrated => built
    /\ pc = "built" => (built /\ ~calibrated)
    /\ (pc \in {"loop", "rank"} \/ calls # <<>> \/ j > 0 \/ html # <<>>) =>
         (built /\ calibrated)

C11_Witness ==
    /\ Ranked
    /\ j = 1
    /\ Len(calls) > 1
    /\ html # <<>>
    /\ built /\ calibrated

\* the passes l1o.py issues on the model itself
ModelPassOps == {"model.predict", "get_onehot_grad"}

\* C16 as stated, for the passes of l1o.py: no forward or gradient pass on the
\* model is issued while chainer.config.train is on.
C16_NoPassWithTrainOn ==
    \A k \in 1..Len(calls) :
        calls[k].op \in ModelPassOps => ~calls[k].train

\* C17 as stated, for the paired-input flag: once leave_one_out has been called
\* with snli set it has returned, with one score per variant.
C17_SnliModeYieldsVariants ==
    (use_snli /\ ranker = "leave_one_out" /\ calls # <<>>) =>
        (error = "none" /\ pc = "loop" /\ Len(scores) = Len(xs))

\* the lines of the output file written for probe i under method m
LinesOf(i, m) == {k \in 1..Len(html) : html[k] = [probe |-> i, method |-> m]}

\* C18 as stated: a run configured with a recognized method ends with every
\* test example ranked exactly once under each of the three methods and 3 * N
\* lines written.
C18_EveryProbeRankedUnderEachMethod ==
    (Halted /\ interp_method \in Recognized) =>
        /\ Len(html) = 3 * N
        /\ \A i \in 0..(N - 1) : \A m \in Recognized : Cardinality(LinesOf(i, m)) = 1

\* the identifiers under which the index holds a vector
StoredIds == {e.data : e \in activation_tree}

\* the build phase of train_text_classifier.py is over and the index is made
BuildOver == tpc \in {"eval", "done"} \/ (tpc = "aborted" /\ activation_tree # {})

\* C12: every identifier a query of the index returns is one of 0..N-1, the
\* identifiers the training activations were stored under, N being the
\* number of training examples; label_list[id] is defined for each of them
\* and the lookup never fails.
C12_QueryIdsAreStoredIds ==
    /\ BuildOver =>
         /\ StoredIds = 0..(n_train - 1)
         /\ Len(label_list) = n_train
    /\ training_indices \subseteq StoredIds
    /\ \A id \in training_indices : id + 1 \in DOMAIN label_list
    /\ terror # "IndexError:214"

\* a query has returned the last identifier stored, N-1, and another, and its
\* example has been counted
C12_Witness ==
    /\ tpc = "eval"
    /\ n_train = 3
    /\ total = 1
    /\ training_indices = {0, 2}
    /\ DOMAIN pred_labels = {0, 2}

\* C13: whatever the order of the training batches, the label kept for
\* identifier i is the label of the training example whose activation the
\* index holds under identifier i.
C13_LabelAndActivationOfSameExample ==
    /\ Len(label_list) = Len(layers_act_list)
    /\ \A k \in 1..Len(label_list) :
         /\ label_list[k].ex = layers_act_list[k].ex
         /\ label_list[k].label = PredictedLabel(label_list[k].ex)
    /\ \A e \in activation_tree :
         /\ e.data + 1 \in DOMAIN label_list
         /\ label_list[e.data + 1].ex = e.vec.ex

\* the batches came out of dataset order (example 3 first, then 1 with 2 in
\* one batch, 2 ahead of 1) and the index is filled
C13_Witness ==
    /\ tpc = "eval"
    /\ batchsize = 2
    /\ n_train = 3
    /\ Len(label_list) = 3
    /\ label_list[1].ex = 3
    /\ label_list[2].ex = 2
    /\ Cardinality(activation_tree) = 3

\* C14: once the build phase is over, no step of the evaluation changes the
\* index or label_list.
C14_IndexAndLabelsReadOnlyAfterBuild ==
    [][BuildOver => /\ activation_tree' = activation_tree
                    /\ label_list' = label_list]_vars

\* the evaluation has run to its end over two test examples, with queries
\* that returned neighbours
C14_Witness ==
    /\ tpc = "done"
    /\ total = 2
    /\ training_indices # {}
    /\ Cardinality(activation_tree) = n_train
    /\ Len(label_list) = n_train

\* C15: whatever list of neighbours a query returns, the empty list
\* included, the vote over the neighbours' labels gives a result and the
\* evaluation does not fail.
C15_VoteDefinedForEveryNeighbourList ==
    terror \notin {"IndexError:214", "IndexError:217"}

\* C19: for every encoder and classifier of nets.py and every layer count,
\* the call with dknn=True returns as many per-layer activations as the
\* object declares in n_dknn_layers.
C19_ReturnedLayersMatchDeclared ==
    npc \in {"returned", "raised"} =>
        /\ npc = "returned"
        /\ Len(dknn_layers) = net.n_dknn_layers

====
